---------------------------- MODULE Spec2Model ----------------------------
(***************************************************************************)
(* Model of src/main.py: the retry wrapper retry_with_exponential_backoff  *)
(* and the paper-analysis pipeline analyze_and_save / analyze_paper /      *)
(* parallel_analysis.                                                      *)
(*                                                                         *)
(* Several specifications share the module.  SpecRetry runs one call of    *)
(* the wrapper under an arbitrary retry policy and records every           *)
(* invocation of the wrapped function and every sleep.  Spec runs one call *)
(* of analyze_and_save, in which every backend call goes through           *)
(* safe_initiate_chat, the wrapper with its default policy.  SpecPages     *)
(* runs the page loop twice, SpecWorkers runs concurrent wrapper calls.    *)
(***************************************************************************)
EXTENDS Integers, Sequences, FiniteSets, TLC

VARIABLES
    \* ---- one call of wrapper(*args, **kwargs), main.py:55-67 ----
    policy,          \* [max_retries, initial_delay, max_delay] bound by the decorator
    retries,         \* the local counter of line 56
    wstate,          \* "running" | "returned" | "raised" | "fellthrough"
    attempts,        \* outcome of every invocation of func, in order: "ok" | "err"
    waits,           \* every wait_time passed to time.sleep, in order
    warnings,        \* number of logging.warning entries
    outcome,         \* what left the wrapper: <<"value", i>>, <<"error", i>>, None
    \* ---- one call of analyze_and_save(file), main.py:172-182 ----
    pc,              \* position of the orchestrating thread
    page_dict,       \* number of pages n; the mapping is {0: .., n-1: ..}
    mretries,        \* retries of the wrapper call the orchestrating thread is in
    issued,          \* safe_initiate_chat calls made by the orchestrating thread
    parsing_result,  \* what the parser call returned: [kind, keys]
    sections,        \* json.loads(parsing_result): [kind, keys in insertion order]
    futures,         \* the submitted tasks, in submission order
    yielded,         \* the futures as_completed has handed to the loop
    results,         \* the dict built at lines 104-107, in insertion order
    section_analyses,
    final_synthesis,
    page_summaries,  \* the dict built at lines 147-154, in insertion order
    result,          \* <<the value analyze_paper returned>>, <<>> before that
    saved,           \* save_analysis has been invoked
    error,           \* the exception that ended the run, <<>> if none
    \* ---- analysis_results/<title>_analysis.json, main.py:162-170 ----
    file,            \* <<the JSON document save_analysis wrote>>, <<>> if none
    loaded,          \* <<the value load_analysis returned>>, <<>> before that
    \* ---- two runs of the page loop of lines 147-154 on the same pages ----
    runs,
    \* ---- concurrent calls of one wrapper, main.py:55-67 ----
    workers

retryVars == <<policy, retries, wstate, attempts, waits, warnings, outcome>>

pipeVars == <<pc, page_dict, mretries, issued, parsing_result, sections, futures,
              yielded, results, section_analyses, final_synthesis,
              page_summaries, result, saved, error>>

storeVars == <<file, loaded>>

vars == <<retryVars, pipeVars, storeVars, runs, workers>>

\* what the actions of a wrapper call leave alone
nonRetryVars == <<pipeVars, storeVars, runs, workers>>

\* what the actions of the pipeline leave alone
nonPipeVars == <<retryVars, runs, workers>>

None == <<"None", 0>>

\* no parser response yet
NoResponse == [kind |-> "none", keys |-> <<>>]

(***************************************************************************)
(* Bounds of the model.                                                    *)
(***************************************************************************)
\* largest max_retries a policy is drawn with
MaxMaxRetries == 5
\* largest initial_delay, in seconds
MaxInitialDelay == 2
\* largest max_delay, in seconds
MaxMaxDelay == 5
\* random.uniform(0, 1) is drawn from {0, 1/JitterDen, ..., 1}; durations are
\* counted in units of 1/JitterDen seconds
JitterDen == 2

Min(a, b) == IF a <= b THEN a ELSE b

RECURSIVE Pow2(_)
Pow2(n) == IF n = 0 THEN 1 ELSE 2 * Pow2(n - 1)

(***************************************************************************)
(* retry_with_exponential_backoff, main.py:54-68                           *)
(***************************************************************************)
\* the defaults of the decorator, used by safe_initiate_chat
default_max_retries == 5
default_initial_delay == 1
default_max_delay == 60

\* line 58: the while condition
LoopCondition(r, max_retries) == r < max_retries

\* mutant: the test of line 62 fires one attempt early
IsLastAttempt_OneEarly(r, max_retries) == r >= max_retries - 2

\* line 62: the failed attempt is the last one and its error is re-raised
IsLastAttempt(r, max_retries) == r = max_retries - 1

\* mutant: line 64 without the min(..., max_delay) cap
wait_time_NoCap(delay, r, j, max_delay) ==
    delay * Pow2(r) * JitterDen + j

\* line 64, with delay = initial_delay (line 57; never reassigned) and the
\* jitter j/JitterDen; the value is in units of 1/JitterDen seconds
wait_time(delay, r, j, max_delay) ==
    Min(delay * Pow2(r) * JitterDen + j, max_delay * JitterDen)

default_policy ==
    [max_retries |-> default_max_retries,
     initial_delay |-> default_initial_delay,
     max_delay |-> default_max_delay]

\* the policies a wrapper is built with: the decorator's arguments
Policies ==
    [max_retries : 0..MaxMaxRetries,
     initial_delay : 1..MaxInitialDelay,
     max_delay : 1..MaxMaxDelay] \cup {default_policy}

RetryInit ==
    /\ policy \in Policies
    /\ retries = 0
    /\ wstate = "running"
    /\ attempts = <<>>
    /\ waits = <<>>
    /\ warnings = 0
    /\ outcome = None

\* line 60: func returns; the wrapper returns its value
WrapperCallOk ==
    /\ wstate = "running"
    /\ LoopCondition(retries, policy.max_retries)
    /\ attempts' = Append(attempts, "ok")
    /\ outcome' = <<"value", Len(attempts) + 1>>
    /\ wstate' = "returned"
    /\ UNCHANGED <<policy, retries, waits, warnings>>
    /\ UNCHANGED nonRetryVars

\* mutant: the last failed attempt warns and sleeps before it re-raises
WrapperCallRaise_SleepFirst ==
    /\ wstate = "running"
    /\ LoopCondition(retries, policy.max_retries)
    /\ IsLastAttempt(retries, policy.max_retries)
    /\ \E j \in 0..JitterDen :
          waits' = Append(waits, wait_time(policy.initial_delay, retries, j,
                                           policy.max_delay))
    /\ attempts' = Append(attempts, "err")
    /\ warnings' = warnings + 1
    /\ outcome' = <<"error", Len(attempts) + 1>>
    /\ wstate' = "raised"
    /\ UNCHANGED <<policy, retries>>
    /\ UNCHANGED nonRetryVars

\* lines 61-63: func raises on the last attempt; bare raise re-raises it
WrapperCallRaise ==
    /\ wstate = "running"
    /\ LoopCondition(retries, policy.max_retries)
    /\ IsLastAttempt(retries, policy.max_retries)
    /\ attempts' = Append(attempts, "err")
    /\ outcome' = <<"error", Len(attempts) + 1>>
    /\ wstate' = "raised"
    /\ UNCHANGED <<policy, retries, waits, warnings>>
    /\ UNCHANGED nonRetryVars

\* mutant: line 67 is missing, the counter never moves
WrapperCallRetry_NoIncrement ==
    /\ wstate = "running"
    /\ LoopCondition(retries, policy.max_retries)
    /\ ~IsLastAttempt(retries, policy.max_retries)
    /\ \E j \in 0..JitterDen :
          waits' = Append(waits, wait_time(policy.initial_delay, retries, j,
                                           policy.max_delay))
    /\ attempts' = Append(attempts, "err")
    /\ warnings' = warnings + 1
    /\ UNCHANGED <<policy, retries, wstate, outcome>>
    /\ UNCHANGED nonRetryVars

\* lines 61-67: func raises on an earlier attempt; warn, sleep, count
WrapperCallRetry ==
    /\ wstate = "running"
    /\ LoopCondition(retries, policy.max_retries)
    /\ ~IsLastAttempt(retries, policy.max_retries)
    /\ \E j \in 0..JitterDen :
          waits' = Append(waits, wait_time(policy.initial_delay, retries, j,
                                           policy.max_delay))
    /\ attempts' = Append(attempts, "err")
    /\ warnings' = warnings + 1
    /\ retries' = retries + 1
    /\ UNCHANGED <<policy, wstate, outcome>>
    /\ UNCHANGED nonRetryVars

\* line 58 false: the loop ends and the wrapper returns None implicitly
WrapperFallThrough ==
    /\ wstate = "running"
    /\ ~LoopCondition(retries, policy.max_retries)
    /\ wstate' = "fellthrough"
    /\ outcome' = None
    /\ UNCHANGED <<policy, retries, attempts, waits, warnings>>
    /\ UNCHANGED nonRetryVars


RetryNext ==
    \/ WrapperCallOk
    \/ WrapperCallRaise
    \/ WrapperCallRetry
    \/ WrapperFallThrough

\* the orchestrating thread before analyze_and_save is called
PipeIdle ==
    /\ pc = "idle"
    /\ page_dict = 0
    /\ mretries = 0
    /\ issued = <<>>
    /\ parsing_result = NoResponse
    /\ sections = NoResponse
    /\ futures = <<>>
    /\ yielded = {}
    /\ results = <<>>
    /\ section_analyses = <<>>
    /\ final_synthesis = <<>>
    /\ page_summaries = <<>>
    /\ result = <<>>
    /\ saved = FALSE
    /\ error = <<>>

\* nothing saved or loaded
StoreIdle == file = <<>> /\ loaded = <<>>

\* the page loop and the concurrent wrapper calls are not under test
RunsIdle == runs = <<>>

WorkersIdle == workers = <<>>

InitRetry == RetryInit /\ PipeIdle /\ StoreIdle /\ RunsIdle /\ WorkersIdle

SpecRetry == InitRetry /\ [][RetryNext]_vars

\* every invocation of func and every sleep returns, so a running wrapper
\* takes its next step
SpecRetryFair == InitRetry /\ [][RetryNext]_vars /\ WF_vars(RetryNext)

(***************************************************************************)
(* The backend and the documents.                                          *)
(***************************************************************************)
\* largest number of pages of a document
MaxPages == 2
\* largest number of keys in the parser's mapping
MaxSections == 5
\* mappings longer than this are taken with their keys in document order only
MaxPermLen == 2

\* the section names of the parser prompt, line 129
SectionEnum == {"Introduction", "Methodology", "Results", "Discussion"}

\* the keys a parser response may carry: json.loads accepts any key
SectionKeys == SectionEnum \cup {"Abstract"}

\* the order in which the parts appear in a paper
DocumentOrder == <<"Abstract", "Introduction", "Methodology", "Results", "Discussion">>

\* the experts passed to parallel_analysis, lines 135
experts == <<"Introduction_Expert", "Methodology_Expert", "Results_Expert",
             "Discussion_Expert">>

Injective(s) == \A i, j \in 1..Len(s) : s[i] = s[j] => i = j

Rank(k) == CHOOSE i \in 1..Len(DocumentOrder) : DocumentOrder[i] = k

InDocumentOrder(s) == \A i, j \in 1..Len(s) : i < j => Rank(s[i]) < Rank(s[j])

\* the ordered key lists of the JSON objects the parser may answer with
KeyLists ==
    {s \in UNION {[1..n -> SectionKeys] : n \in 0..MaxSections} :
        /\ Injective(s)
        /\ (Len(s) <= MaxPermLen \/ InDocumentOrder(s))}

\* what the parser call can hand back (line 131 assumes it is the text of the
\* parser's answer): text that is not JSON, JSON that is not an object, or a
\* JSON object with the given keys
ParserResponses ==
    {[kind |-> "malformed", keys |-> <<>>], [kind |-> "nonmapping", keys |-> <<>>]}
        \cup {[kind |-> "mapping", keys |-> s] : s \in KeyLists}

\* the text the parser put under a key
SectionText(name) == <<"text", name>>

\* the text of a page, line 81
PageText(i) == <<"page", i>>

\* a deterministic backend: the answer depends on the recipient and the message
Respond(recipient, message) == <<recipient, message>>

\* d[k] = v on a dict kept as the sequence of its items in insertion order
DictSet(d, k, v) ==
    IF \E i \in 1..Len(d) : d[i][1] = k
    THEN [i \in 1..Len(d) |-> IF d[i][1] = k THEN <<k, v>> ELSE d[i]]
    ELSE Append(d, <<k, v>>)

Keys(d) == {d[i][1] : i \in 1..Len(d)}

(***************************************************************************)
(* analyze_and_save, analyze_paper, parallel_analysis                      *)
(***************************************************************************)
\* line 174: load_pdf gives the page mapping; lines 126-130: the parser call
LoadPdf ==
    /\ pc = "idle"
    /\ page_dict' \in 0..MaxPages
    /\ pc' = "parse_call"
    /\ issued' = Append(issued, "parser")
    /\ UNCHANGED <<mretries, parsing_result, sections, futures, yielded, results,
                   section_analyses, final_synthesis, page_summaries, result,
                   saved, error>>
    /\ UNCHANGED <<nonPipeVars, storeVars>>

\* lines 59-67 inside a safe_initiate_chat call of the orchestrating thread:
\* the backend fails; the wrapper retries, or re-raises and the run ends
ChatErr ==
    /\ pc \in {"parse_call", "synth_call", "page_call"}
    /\ LoopCondition(mretries, default_max_retries)
    /\ IF IsLastAttempt(mretries, default_max_retries)
       THEN /\ pc' = "failed"
            /\ error' = <<"BackendError", pc>>
            /\ UNCHANGED mretries
       ELSE /\ mretries' = mretries + 1
            /\ UNCHANGED <<pc, error>>
    /\ UNCHANGED <<page_dict, issued, parsing_result, sections, futures, yielded,
                   results, section_analyses, final_synthesis, page_summaries,
                   result, saved>>
    /\ UNCHANGED <<nonPipeVars, storeVars>>

\* lines 126-130: the parser call returns
ParserCallOk ==
    /\ pc = "parse_call"
    /\ LoopCondition(mretries, default_max_retries)
    /\ parsing_result' \in ParserResponses
    /\ pc' = "json_loads"
    /\ mretries' = 0
    /\ UNCHANGED <<page_dict, issued, sections, futures, yielded, results,
                   section_analyses, final_synthesis, page_summaries, result,
                   saved, error>>
    /\ UNCHANGED <<nonPipeVars, storeVars>>

\* mutant: a response that does not parse makes the parser call be made again
JsonLoads_Reparse ==
    /\ pc = "json_loads"
    /\ IF parsing_result.kind = "malformed"
       THEN /\ pc' = "parse_call"
            /\ issued' = Append(issued, "parser")
            /\ UNCHANGED sections
       ELSE /\ sections' = parsing_result
            /\ pc' = "dispatch"
            /\ UNCHANGED issued
    /\ UNCHANGED <<page_dict, mretries, parsing_result, futures, yielded,
                   results, section_analyses, final_synthesis, page_summaries,
                   result, saved, error>>
    /\ UNCHANGED <<nonPipeVars, storeVars>>

\* line 131: json.loads raises on text that is not JSON and accepts the rest
JsonLoads ==
    /\ pc = "json_loads"
    /\ IF parsing_result.kind = "malformed"
       THEN /\ pc' = "failed"
            /\ error' = <<"JSONDecodeError">>
            /\ UNCHANGED sections
       ELSE /\ sections' = parsing_result
            /\ pc' = "dispatch"
            /\ UNCHANGED error
    /\ UNCHANGED <<page_dict, mretries, issued, parsing_result, futures, yielded,
                   results, section_analyses, final_synthesis, page_summaries,
                   result, saved>>
    /\ UNCHANGED <<nonPipeVars, storeVars>>

\* lines 33-36: the section each expert's system message is about
Specialty(expert) ==
    CASE expert = "Introduction_Expert" -> "Introduction"
      [] expert = "Methodology_Expert" -> "Methodology"
      [] expert = "Results_Expert" -> "Results"
      [] expert = "Discussion_Expert" -> "Discussion"

\* the order of the sections in the parser prompt, line 129
CanonicalOrder == <<"Introduction", "Methodology", "Results", "Discussion">>

\* mutant: a section is paired with the expert of its name when there is one
Zip_ByName(es, ss) ==
    [i \in 1..Min(Len(es), Len(ss)) |->
        [expert |-> IF \E j \in 1..Len(es) : Specialty(es[j]) = ss[i]
                    THEN es[CHOOSE j \in 1..Len(es) : Specialty(es[j]) = ss[i]]
                    ELSE es[i],
         section_name |-> ss[i], retries |-> 0, state |-> "running"]]

\* mutant: a fifth section and later ones go to the experts again, in turn
Zip_CyclesExperts(es, ss) ==
    [i \in 1..Len(ss) |->
        [expert |-> es[((i - 1) % Len(es)) + 1], section_name |-> ss[i],
         retries |-> 0, state |-> "running"]]

\* mutant: the expert list passed at line 135 lacks its last element
Zip_ShortExperts(es, ss) ==
    [i \in 1..Min(Len(es) - 1, Len(ss)) |->
        [expert |-> es[i], section_name |-> ss[i], retries |-> 0,
         state |-> "running"]]

\* line 103: zip(experts, sections.items()) stops at the shorter of the two.
\* A task's retries is the local counter of its wrapper call (line 56); it is
\* gone, and kept at 0 here, once the call has returned or raised.
Zip(es, ss) ==
    [i \in 1..Min(Len(es), Len(ss)) |->
        [expert |-> es[i], section_name |-> ss[i], retries |-> 0,
         state |-> "running"]]

\* lines 101-104: one task per pair is submitted; a value without .items()
\* raises AttributeError before anything is submitted
Dispatch ==
    /\ pc = "dispatch"
    /\ IF sections.kind # "mapping"
       THEN /\ pc' = "failed"
            /\ error' = <<"AttributeError">>
            /\ UNCHANGED futures
       ELSE /\ futures' = Zip(experts, sections.keys)
            /\ pc' = "collect"
            /\ UNCHANGED error
    /\ UNCHANGED <<page_dict, mretries, issued, parsing_result, sections, yielded,
                   results, section_analyses, final_synthesis, page_summaries,
                   result, saved>>
    /\ UNCHANGED <<nonPipeVars, storeVars>>

\* lines 96-98: what a task returns when its call succeeds
analyze_section(expert, section_name, section_content) ==
    Respond(expert, <<"Analyze", section_name, section_content>>)

FutureResult(f) == analyze_section(f.expert, f.section_name, SectionText(f.section_name))

\* mutant: the task stores its analysis in the shared mapping itself
TaskOk_WritesResults(t) ==
    /\ futures[t].state = "running"
    /\ LoopCondition(futures[t].retries, default_max_retries)
    /\ futures' = [futures EXCEPT ![t].state = "done", ![t].retries = 0]
    /\ results' = DictSet(results, futures[t].section_name, FutureResult(futures[t]))
    /\ UNCHANGED <<pc, page_dict, mretries, issued, parsing_result, sections,
                   yielded, section_analyses, final_synthesis,
                   page_summaries, result, saved, error>>
    /\ UNCHANGED <<nonPipeVars, storeVars>>

\* lines 96-98 in a worker thread: the task's backend call succeeds
TaskOk(t) ==
    /\ futures[t].state = "running"
    /\ LoopCondition(futures[t].retries, default_max_retries)
    /\ futures' = [futures EXCEPT ![t].state = "done", ![t].retries = 0]
    /\ UNCHANGED <<pc, page_dict, mretries, issued, parsing_result, sections,
                   yielded, results, section_analyses, final_synthesis,
                   page_summaries, result, saved, error>>
    /\ UNCHANGED <<nonPipeVars, storeVars>>

\* lines 59-67 in a worker thread: the task's backend call fails
TaskErr(t) ==
    /\ futures[t].state = "running"
    /\ LoopCondition(futures[t].retries, default_max_retries)
    /\ futures' = IF IsLastAttempt(futures[t].retries, default_max_retries)
                  THEN [futures EXCEPT ![t].state = "raised", ![t].retries = 0]
                  ELSE [futures EXCEPT ![t].retries = @ + 1]
    /\ UNCHANGED <<pc, page_dict, mretries, issued, parsing_result, sections,
                   yielded, results, section_analyses, final_synthesis,
                   page_summaries, result, saved, error>>
    /\ UNCHANGED <<nonPipeVars, storeVars>>

\* line 105: as_completed hands over a future only once it has finished
IsCompleted(f) == f.state \in {"done", "raised"}

\* mutant: a failed future is skipped instead of re-raising its exception
Collect_SkipsFailed(t) ==
    /\ pc = "collect"
    /\ t \notin yielded
    /\ futures[t].state \in {"done", "raised"}
    /\ yielded' = yielded \cup {t}
    /\ results' = IF futures[t].state = "done"
                  THEN DictSet(results, futures[t].section_name,
                               FutureResult(futures[t]))
                  ELSE results
    /\ UNCHANGED <<pc, error, page_dict, mretries, issued, parsing_result, sections,
                   futures, section_analyses, final_synthesis, page_summaries,
                   result, saved>>
    /\ UNCHANGED <<nonPipeVars, storeVars>>

\* lines 105-107: the loop takes a finished future; future.result() gives the
\* task's value or re-raises the task's exception
Collect(t) ==
    /\ pc = "collect"
    /\ t \notin yielded
    /\ IsCompleted(futures[t])
    /\ yielded' = yielded \cup {t}
    /\ IF futures[t].state = "done"
       THEN /\ results' = DictSet(results, futures[t].section_name,
                                  FutureResult(futures[t]))
            /\ UNCHANGED <<pc, error>>
       ELSE /\ pc' = "shutdown"
            /\ error' = <<"BackendError", t>>
            /\ UNCHANGED results
    /\ UNCHANGED <<page_dict, mretries, issued, parsing_result, sections, futures,
                   section_analyses, final_synthesis, page_summaries, result,
                   saved>>
    /\ UNCHANGED <<nonPipeVars, storeVars>>

\* mutant: the executor is shut down with wait=False
ShutdownWait_NoWait == TRUE

\* line 101: leaving the with block calls executor.shutdown(wait=True)
ShutdownWait == \A t \in DOMAIN futures : futures[t].state # "running"

\* lines 140-142: the prompt lists the analyses in the dict's iteration order
synthesis_prompt(analyses) == <<"Synthesize", analyses>>

\* mutant: the mapping is returned as soon as one future has been taken and
\* the executor is not waited for
ParallelReturn_FirstCompleted ==
    /\ pc = "collect"
    /\ yielded # {}
    /\ section_analyses' = results
    /\ pc' = "synth_call"
    /\ issued' = Append(issued, "synthesis")
    /\ UNCHANGED <<page_dict, mretries, parsing_result, sections, futures, yielded,
                   results, final_synthesis, page_summaries, result, saved, error>>
    /\ UNCHANGED <<nonPipeVars, storeVars>>

\* lines 105, 108, 134-144: every future was taken, the executor is shut down,
\* the mapping is returned and the synthesis call is made
ParallelReturn ==
    /\ pc = "collect"
    /\ yielded = DOMAIN futures
    /\ ShutdownWait
    /\ section_analyses' = results
    /\ pc' = "synth_call"
    /\ issued' = Append(issued, "synthesis")
    /\ UNCHANGED <<page_dict, mretries, parsing_result, sections, futures, yielded,
                   results, final_synthesis, page_summaries, result, saved, error>>
    /\ UNCHANGED <<nonPipeVars, storeVars>>

\* line 101 after line 107 raised: the exception leaves parallel_analysis and
\* analyze_paper once the executor is shut down
ParallelRaise ==
    /\ pc = "shutdown"
    /\ ShutdownWait
    /\ pc' = "failed"
    /\ UNCHANGED <<page_dict, mretries, issued, parsing_result, sections, futures,
                   yielded, results, section_analyses, final_synthesis,
                   page_summaries, result, saved, error>>
    /\ UNCHANGED <<nonPipeVars, storeVars>>

\* line 144: the synthesis call returns
SynthOk ==
    /\ pc = "synth_call"
    /\ LoopCondition(mretries, default_max_retries)
    /\ final_synthesis' = Respond("Synthesis_Expert", synthesis_prompt(section_analyses))
    /\ pc' = "page_loop"
    /\ mretries' = 0
    /\ UNCHANGED <<page_dict, issued, parsing_result, sections, futures, yielded,
                   results, section_analyses, page_summaries, result, saved, error>>
    /\ UNCHANGED <<nonPipeVars, storeVars>>

\* mutant: the loop stops one page early
HasNextPage_SkipsLast == Len(page_summaries) < page_dict - 1

\* line 148: page_dict.items() has a next page (pages 0..n-1, in order)
HasNextPage == Len(page_summaries) < page_dict

NextPage == Len(page_summaries)

\* lines 148-153: the loop takes the next page and makes its call
PageCall ==
    /\ pc = "page_loop"
    /\ HasNextPage
    /\ pc' = "page_call"
    /\ issued' = Append(issued, "page")
    /\ UNCHANGED <<page_dict, mretries, parsing_result, sections, futures, yielded,
                   results, section_analyses, final_synthesis, page_summaries,
                   result, saved, error>>
    /\ UNCHANGED <<nonPipeVars, storeVars>>

\* mutant: the summary is stored under the position in the loop
summarize_page_ByPosition(summaries, page_num) ==
    DictSet(summaries, Len(summaries),
            Respond("Synthesis_Expert", <<"Summarize", PageText(page_num)>>))

\* lines 149-154: the summary of the page's text is stored under page_num
summarize_page(summaries, page_num) ==
    DictSet(summaries, page_num,
            Respond("Synthesis_Expert", <<"Summarize", PageText(page_num)>>))

\* lines 149-154: the page's call returns and its summary is stored
PageOk ==
    /\ pc = "page_call"
    /\ LoopCondition(mretries, default_max_retries)
    /\ page_summaries' = summarize_page(page_summaries, NextPage)
    /\ pc' = "page_loop"
    /\ mretries' = 0
    /\ UNCHANGED <<page_dict, issued, parsing_result, sections, futures, yielded,
                   results, section_analyses, final_synthesis, result, saved, error>>
    /\ UNCHANGED <<nonPipeVars, storeVars>>

\* line 148: page_dict.items() is exhausted and the loop ends
PageLoopExit ==
    /\ pc = "page_loop"
    /\ ~HasNextPage
    /\ pc' = "assemble"
    /\ UNCHANGED <<page_dict, mretries, issued, parsing_result, sections, futures,
                   yielded, results, section_analyses, final_synthesis,
                   page_summaries, result, saved, error>>
    /\ UNCHANGED <<nonPipeVars, storeVars>>

\* lines 156-160, 177: analyze_paper returns the assembled result
Return ==
    /\ pc = "assemble"
    /\ result' = <<[section_analyses |-> section_analyses,
                  final_synthesis |-> final_synthesis,
                  page_summaries |-> page_summaries]>>
    /\ pc' = "save"
    /\ UNCHANGED <<page_dict, mretries, issued, parsing_result, sections, futures,
                   yielded, results, section_analyses, final_synthesis,
                   page_summaries, saved, error>>
    /\ UNCHANGED <<nonPipeVars, storeVars>>

(***************************************************************************)
(* save_analysis / load_analysis, main.py:162-170.  A Python dict is the   *)
(* sequence of its items; a key carries its type: <<"int", digits>> or      *)
(* <<"str", text>>.  A JSON object is the sequence of its members, whose    *)
(* names are plain strings.                                                *)
(***************************************************************************)
PyInt(k) == <<"int", ToString(k)>>

PyStr(k) == <<"str", k>>

\* the result of analyze_paper as the Python value it is: section names are
\* str keys (line 131), page numbers are int keys (lines 78-81, 154)
ToPy(r) ==
    [section_analyses |->
        [i \in 1..Len(r.section_analyses) |->
            <<PyStr(r.section_analyses[i][1]), r.section_analyses[i][2]>>],
     final_synthesis |-> r.final_synthesis,
     page_summaries |->
        [i \in 1..Len(r.page_summaries) |->
            <<PyInt(r.page_summaries[i][1]), r.page_summaries[i][2]>>]]

\* json.dump writes a str key as it is and an int key as its decimal digits
JsonName(key) == key[2]

JsonObject(d) == [i \in 1..Len(d) |-> <<JsonName(d[i][1]), d[i][2]>>]

\* line 166
json_dump(analysis) ==
    [section_analyses |-> JsonObject(analysis.section_analyses),
     final_synthesis |-> analysis.final_synthesis,
     page_summaries |-> JsonObject(analysis.page_summaries)]

\* json.load gives every member of an object a str key
PyDict(o) == [i \in 1..Len(o) |-> <<PyStr(o[i][1]), o[i][2]>>]

\* line 170
json_load(doc) ==
    [section_analyses |-> PyDict(doc.section_analyses),
     final_synthesis |-> doc.final_synthesis,
     page_summaries |-> PyDict(doc.page_summaries)]

\* mutant: save_analysis runs in a finally block, after a failed run too
Save_Finally ==
    /\ pc \in {"save", "failed"}
    /\ ~saved
    /\ saved' = TRUE
    /\ pc' = IF pc = "save" THEN "done" ELSE pc
    /\ file' = IF result # <<>> THEN <<json_dump(ToPy(result[1]))>> ELSE file
    /\ UNCHANGED <<page_dict, mretries, issued, parsing_result, sections, futures,
                   yielded, results, section_analyses, final_synthesis,
                   page_summaries, result, error>>
    /\ UNCHANGED <<nonPipeVars, loaded>>

\* lines 162-166, 179-182: save_analysis is called with the result and
\* json.dump writes it
Save ==
    /\ pc = "save"
    /\ saved' = TRUE
    /\ file' = <<json_dump(ToPy(result[1]))>>
    /\ pc' = "done"
    /\ UNCHANGED <<page_dict, mretries, issued, parsing_result, sections, futures,
                   yielded, results, section_analyses, final_synthesis,
                   page_summaries, result, error>>
    /\ UNCHANGED <<nonPipeVars, loaded>>

\* lines 168-170: load_analysis of the same title reads the document back
Load ==
    /\ file # <<>>
    /\ loaded = <<>>
    /\ loaded' = <<json_load(file[1])>>
    /\ UNCHANGED <<pipeVars, file, nonPipeVars>>

Next ==
    \/ LoadPdf
    \/ ChatErr
    \/ ParserCallOk
    \/ JsonLoads
    \/ Dispatch
    \/ \E t \in DOMAIN futures : TaskOk(t)
    \/ \E t \in DOMAIN futures : TaskErr(t)
    \/ \E t \in DOMAIN futures : Collect(t)
    \/ ParallelReturn
    \/ ParallelRaise
    \/ SynthOk
    \/ PageCall
    \/ PageOk
    \/ PageLoopExit
    \/ Return
    \/ Save
    \/ Load

\* no wrapper under test: the pipeline's calls use the default policy
RetryIdle ==
    /\ policy = default_policy
    /\ retries = 0
    /\ wstate = "running"
    /\ attempts = <<>>
    /\ waits = <<>>
    /\ warnings = 0
    /\ outcome = None

Init == RetryIdle /\ PipeIdle /\ StoreIdle /\ RunsIdle /\ WorkersIdle

Spec == Init /\ [][Next]_vars

(***************************************************************************)
(* The page loop of analyze_paper, lines 146-154, run twice on the same    *)
(* pages, the second run after the first, each with its own iteration      *)
(* order of page_dict.                                                     *)
(***************************************************************************)
\* largest number of pages summarized in these runs
MaxRunPages == 3

\* the iteration orders of a page mapping with keys 0..n-1
PageOrders(n) == {o \in [1..n -> 0..(n - 1)] : Injective(o)}

NewRun(items) == [items |-> items, pos |-> 0, summaries |-> <<>>, retries |-> 0,
                  state |-> "running"]

RunsInit ==
    \E n \in 0..MaxRunPages :
        \E o1, o2 \in PageOrders(n) : runs = <<NewRun(o1), NewRun(o2)>>

\* the second run starts when the first is over
RunActive(r) ==
    /\ runs[r].state = "running"
    /\ r = 2 => runs[1].state # "running"

\* lines 148-154: the call for the next page returns and its summary is stored
RunPageOk(r) ==
    /\ RunActive(r)
    /\ runs[r].pos < Len(runs[r].items)
    /\ LoopCondition(runs[r].retries, default_max_retries)
    /\ runs' = [runs EXCEPT
                  ![r].summaries = summarize_page(@, runs[r].items[runs[r].pos + 1]),
                  ![r].pos = @ + 1,
                  ![r].retries = 0]
    /\ UNCHANGED <<retryVars, pipeVars, storeVars, workers>>

\* lines 59-67 inside the page's call: the backend fails
RunPageErr(r) ==
    /\ RunActive(r)
    /\ runs[r].pos < Len(runs[r].items)
    /\ LoopCondition(runs[r].retries, default_max_retries)
    /\ runs' = IF IsLastAttempt(runs[r].retries, default_max_retries)
               THEN [runs EXCEPT ![r].state = "raised", ![r].retries = 0]
               ELSE [runs EXCEPT ![r].retries = @ + 1]
    /\ UNCHANGED <<retryVars, pipeVars, storeVars, workers>>

\* line 148: the loop is over
RunReturn(r) ==
    /\ RunActive(r)
    /\ runs[r].pos = Len(runs[r].items)
    /\ runs' = [runs EXCEPT ![r].state = "returned"]
    /\ UNCHANGED <<retryVars, pipeVars, storeVars, workers>>

PagesNext ==
    \/ \E r \in DOMAIN runs : RunPageOk(r)
    \/ \E r \in DOMAIN runs : RunPageErr(r)
    \/ \E r \in DOMAIN runs : RunReturn(r)

InitPages == RetryIdle /\ PipeIdle /\ StoreIdle /\ RunsInit /\ WorkersIdle

SpecPages == InitPages /\ [][PagesNext]_vars

(***************************************************************************)
(* Concurrent calls of one wrapper, as the section tasks of                *)
(* parallel_analysis make them through safe_initiate_chat: the policy is   *)
(* bound once by the decorator, retries is assigned in each call (line 56). *)
(***************************************************************************)
\* number of threads inside the wrapper at the same time
NWorkers == 2

\* line 56-57: the locals of a call that has just entered the wrapper
NewWorker ==
    [retries |-> 0, wstate |-> "running", attempts |-> <<>>, slept |-> 0,
     outcome |-> None]

WorkersInit == workers = [w \in 1..NWorkers |-> NewWorker]

\* line 60 in thread w: func returns; the wrapper returns its value
WorkerCallOk(w) ==
    /\ workers[w].wstate = "running"
    /\ LoopCondition(workers[w].retries, policy.max_retries)
    /\ workers' = [workers EXCEPT ![w] =
          [@ EXCEPT !.attempts = Append(@, "ok"),
                    !.outcome = <<"value", Len(workers[w].attempts) + 1>>,
                    !.wstate = "returned"]]
    /\ UNCHANGED <<retryVars, pipeVars, storeVars, runs>>

\* lines 61-63 in thread w: func raises on the last attempt
WorkerCallRaise(w) ==
    /\ workers[w].wstate = "running"
    /\ LoopCondition(workers[w].retries, policy.max_retries)
    /\ IsLastAttempt(workers[w].retries, policy.max_retries)
    /\ workers' = [workers EXCEPT ![w] =
          [@ EXCEPT !.attempts = Append(@, "err"),
                    !.outcome = <<"error", Len(workers[w].attempts) + 1>>,
                    !.wstate = "raised"]]
    /\ UNCHANGED <<retryVars, pipeVars, storeVars, runs>>

\* mutant: retries is one counter shared by the calls in progress
WorkerCallRetry_SharedCounter(w) ==
    /\ workers[w].wstate = "running"
    /\ LoopCondition(workers[w].retries, policy.max_retries)
    /\ ~IsLastAttempt(workers[w].retries, policy.max_retries)
    /\ workers' = [v \in DOMAIN workers |->
          IF v = w
          THEN [workers[v] EXCEPT !.attempts = Append(@, "err"),
                                  !.slept = @ + 1,
                                  !.retries = @ + 1]
          ELSE IF workers[v].wstate = "running"
               THEN [workers[v] EXCEPT !.retries = @ + 1]
               ELSE workers[v]]
    /\ UNCHANGED <<retryVars, pipeVars, storeVars, runs>>

\* lines 61-67 in thread w: func raises on an earlier attempt; the thread
\* sleeps and counts the failure in its own retries
WorkerCallRetry(w) ==
    /\ workers[w].wstate = "running"
    /\ LoopCondition(workers[w].retries, policy.max_retries)
    /\ ~IsLastAttempt(workers[w].retries, policy.max_retries)
    /\ workers' = [workers EXCEPT ![w] =
          [@ EXCEPT !.attempts = Append(@, "err"),
                    !.slept = @ + 1,
                    !.retries = @ + 1]]
    /\ UNCHANGED <<retryVars, pipeVars, storeVars, runs>>

\* line 58 false in thread w: the wrapper returns None implicitly
WorkerFallThrough(w) ==
    /\ workers[w].wstate = "running"
    /\ ~LoopCondition(workers[w].retries, policy.max_retries)
    /\ workers' = [workers EXCEPT ![w] =
          [@ EXCEPT !.outcome = None, !.wstate = "fellthrough"]]
    /\ UNCHANGED <<retryVars, pipeVars, storeVars, runs>>

WorkersNext ==
    \/ \E w \in DOMAIN workers : WorkerCallOk(w)
    \/ \E w \in DOMAIN workers : WorkerCallRaise(w)
    \/ \E w \in DOMAIN workers : WorkerCallRetry(w)
    \/ \E w \in DOMAIN workers : WorkerFallThrough(w)

InitWorkers == RetryInit /\ PipeIdle /\ StoreIdle /\ RunsIdle /\ WorkersInit

SpecWorkers == InitWorkers /\ [][WorkersNext]_vars

(***************************************************************************)
(* Claims about the retry wrapper, checked under SpecRetry.                *)
(***************************************************************************)
AllErr(s) == \A i \in 1..Len(s) : s[i] = "err"

\* the first k invocations failed and invocation k+1 succeeded
FailsThenSucceeds(k) ==
    /\ Len(attempts) = k + 1
    /\ AllErr(SubSeq(attempts, 1, k))
    /\ attempts[k + 1] = "ok"

\* C1: with max_retries >= 1 and k < max_retries, a call that fails exactly k
\* times and then succeeds makes the wrapper return that success value after
\* exactly k+1 invocations, k sleeps and k warnings (none of either for k = 0);
\* and after k < max_retries failures the wrapper is still running, so the
\* (k+1)-th invocation is made.
C1_ReturnsAfterKFailures ==
    policy.max_retries >= 1 =>
        \A k \in 0..(policy.max_retries - 1) :
            /\ (Len(attempts) = k /\ AllErr(attempts)) =>
                  /\ wstate = "running"
                  /\ LoopCondition(retries, policy.max_retries)
                  /\ Len(waits) = k
                  /\ warnings = k
            /\ FailsThenSucceeds(k) =>
                  /\ wstate = "returned"
                  /\ outcome = <<"value", k + 1>>
                  /\ Len(waits) = k
                  /\ warnings = k

C1_Witness ==
    /\ policy.max_retries = 4
    /\ FailsThenSucceeds(3)
    /\ wstate = "returned"

\* C2: with max_retries >= 1, a call that fails on max_retries consecutive
\* invocations makes the wrapper raise the error of the last invocation, after
\* exactly max_retries invocations and max_retries-1 sleeps; nothing is slept
\* after the last failed attempt and the wrapper raises in no other case.
C2_RaisesLastError ==
    policy.max_retries >= 1 =>
        /\ Len(attempts) <= policy.max_retries
        /\ (Len(attempts) = policy.max_retries /\ AllErr(attempts)) =>
              /\ wstate = "raised"
              /\ outcome = <<"error", policy.max_retries>>
              /\ Len(waits) = policy.max_retries - 1
              /\ warnings = policy.max_retries - 1
        /\ wstate = "raised" =>
              (Len(attempts) = policy.max_retries /\ AllErr(attempts))

C2_Witness ==
    /\ policy.max_retries = 3
    /\ wstate = "raised"
    /\ attempts = <<"err", "err", "err">>
    /\ Len(waits) = 2

\* C3: the wait before the i-th retry (i from 0) is
\* min(initial_delay * 2^i + j, max_delay) for a jitter j in [0, 1]; so it lies
\* in [min(2^i*initial_delay, max_delay), min(2^i*initial_delay + 1, max_delay)]
\* and never exceeds max_delay.  Durations are in units of 1/JitterDen seconds.
C3_WaitWithinBounds ==
    \A n \in 1..Len(waits) :
        LET i == n - 1
            base == Pow2(i) * policy.initial_delay * JitterDen
            cap == policy.max_delay * JitterDen
        IN  /\ \E j \in 0..JitterDen : waits[n] = Min(base + j, cap)
            /\ Min(base, cap) <= waits[n]
            /\ waits[n] <= Min(base + JitterDen, cap)
            /\ waits[n] <= cap

\* an uncapped wait with a jitter strictly inside (0, 1), then a capped one
C3_Witness ==
    /\ Len(waits) >= 3
    /\ policy.initial_delay = 1
    /\ policy.max_delay = 3
    /\ waits[1] = JitterDen + 1
    /\ waits[3] = 3 * JitterDen

RECURSIVE SumSeq(_)
SumSeq(s) == IF s = <<>> THEN 0 ELSE s[1] + SumSeq(Tail(s))

\* C17: when every invocation of the wrapped call terminates, the wrapper
\* terminates, by return or raise, after at most max_retries invocations, and
\* the time it has slept in total is at most (max_retries-1) * max_delay, below
\* max_delay * max_retries.  Durations are in units of 1/JitterDen seconds;
\* checked under SpecRetryFair.
C17_BoundedRetries ==
    /\ [](policy.max_retries >= 1 =>
            /\ Len(attempts) <= policy.max_retries
            /\ Len(waits) <= policy.max_retries - 1
            /\ SumSeq(waits) <= (policy.max_retries - 1) * policy.max_delay * JitterDen
            /\ SumSeq(waits) < policy.max_retries * policy.max_delay * JitterDen
            /\ wstate # "fellthrough")
    /\ <>(wstate \in {"returned", "raised", "fellthrough"})

\* every attempt failed and every wait was the full max_delay
C17_Witness ==
    /\ wstate = "raised"
    /\ policy.max_retries = 5
    /\ policy.max_delay = 1
    /\ SumSeq(waits) = 4 * JitterDen

(***************************************************************************)
(* Claims about the pipeline, checked under Spec.                          *)
(***************************************************************************)
Range(s) == {s[i] : i \in 1..Len(s)}

\* parallel_analysis has returned its mapping to analyze_paper (line 134)
ParallelReturned == "synthesis" \in Range(issued)

\* some submitted task has exhausted its retries
SomeTaskRaised == \E t \in DOMAIN futures : futures[t].state = "raised"

\* C4: for a parsed mapping with 1 to 4 entries and the 4 experts, once every
\* task has succeeded the run does not fail in parallel_analysis, and the
\* mapping parallel_analysis returns has exactly the keys of the parsed mapping,
\* whatever the order in which the tasks completed and were collected.
C4_KeySetPreserved ==
    (sections.kind = "mapping" /\ Len(sections.keys) \in 1..4) =>
        /\ ParallelReturned =>
              /\ Keys(section_analyses) = Range(sections.keys)
              /\ Len(section_analyses) = Len(sections.keys)
        /\ (futures # <<>> /\ \A t \in DOMAIN futures : futures[t].state = "done") =>
              /\ pc # "shutdown"
              /\ Len(futures) = Len(sections.keys)
              /\ error = <<>> \/ ParallelReturned

\* four sections, collected in an order other than the submission order
C4_Witness ==
    /\ ParallelReturned
    /\ sections.keys = <<"Introduction", "Methodology", "Results", "Discussion">>
    /\ section_analyses[1][1] = "Discussion"
    /\ section_analyses[2][1] = "Introduction"

\* C5: a well-formed parser response with a key outside the section enum makes
\* parsing fail and the run abort, so such a run returns no result and saves
\* nothing; and in every returned result the keys of section_analyses are
\* among the parsed keys, which are among the enum.
C5_UnknownKeyRejected ==
    /\ (parsing_result.kind = "mapping"
            /\ ~(Range(parsing_result.keys) \subseteq SectionEnum)) =>
          (result = <<>> /\ ~saved)
    /\ result # <<>> =>
          /\ Keys(result[1].section_analyses) \subseteq Range(sections.keys)
          /\ Range(sections.keys) \subseteq SectionEnum

\* C6: a parser response that is not JSON (or is JSON but not an object) fails
\* the run: the parser call is not made again, no task is ever submitted, no
\* synthesis or page call is made, nothing is returned and nothing is saved.
C6_MalformedAborts ==
    parsing_result.kind \in {"malformed", "nonmapping"} =>
        /\ pc \in {"json_loads", "dispatch", "failed"}
        /\ parsing_result.kind = "malformed" => pc # "dispatch"
        /\ issued = <<"parser">>
        /\ mretries = 0
        /\ futures = <<>>
        /\ final_synthesis = <<>>
        /\ page_summaries = <<>>
        /\ result = <<>>
        /\ ~saved
        /\ pc = "failed" => error \in {<<"JSONDecodeError">>, <<"AttributeError">>}

C6_Witness ==
    /\ parsing_result.kind = "malformed"
    /\ pc = "failed"
    /\ error = <<"JSONDecodeError">>
    /\ page_dict = 2

\* C7: once a submitted task has failed terminally, parallel_analysis never
\* returns a mapping: the loop does not get past a failed future, the exception
\* that leaves parallel_analysis is that of a failed task, and no set of
\* analyses reaches the synthesis call, the result or save_analysis.
C7_FailFast ==
    SomeTaskRaised =>
        /\ ~ParallelReturned
        /\ pc \in {"collect", "shutdown", "failed"}
        /\ section_analyses = <<>>
        /\ final_synthesis = <<>>
        /\ result = <<>>
        /\ ~saved
        /\ \A t \in yielded : futures[t].state = "raised" => pc # "collect"
        /\ yielded = DOMAIN futures => pc # "collect"
        /\ pc \in {"shutdown", "failed"} =>
              /\ Len(error) = 2
              /\ error[1] = "BackendError"
              /\ error[2] \in yielded
              /\ futures[error[2]].state = "raised"

\* one analysis was collected, then a failed future aborted the batch of three
\* in which two tasks failed
C7_Witness ==
    /\ pc = "failed"
    /\ Len(futures) = 3
    /\ Len(results) = 1
    /\ Cardinality({t \in DOMAIN futures : futures[t].state = "raised"}) = 2

\* C8: control leaves parallel_analysis, by return or by exception, only when
\* every submitted task has returned or raised: while a task is running the
\* orchestrating thread is inside parallel_analysis, and the synthesis call
\* and the result come after all tasks.
C8_NoTaskOutlivesParallel ==
    /\ (\E t \in DOMAIN futures : futures[t].state = "running") =>
          pc \in {"collect", "shutdown"}
    /\ (ParallelReturned \/ result # <<>> \/ pc = "failed") =>
          \A t \in DOMAIN futures : futures[t].state \in {"done", "raised"}

\* the batch of four was aborted by a failure; a task that succeeded was never
\* collected, and the exception left only after it
C8_Witness ==
    /\ pc = "failed"
    /\ Len(futures) = 4
    /\ yielded = {2}
    /\ futures[2].state = "raised"
    /\ futures[4].state = "done"

\* C9: in every result analyze_paper returns, page_summaries has exactly one
\* entry per page of the input mapping and no other key; also for no pages.
C9_PageCoverage ==
    result # <<>> =>
        /\ Keys(result[1].page_summaries) = 0..(page_dict - 1)
        /\ Len(result[1].page_summaries) = page_dict

C9_Witness ==
    /\ result # <<>>
    /\ page_dict = 2
    /\ Keys(result[1].page_summaries) = {0, 1}

\* the stage of section 4.5 the orchestrating thread is in
Stage ==
    CASE pc \in {"idle", "parse_call", "json_loads"} -> "Start"
      [] pc \in {"dispatch", "collect", "shutdown"} -> "Parsed"
      [] pc = "synth_call" -> "SectionsAnalyzed"
      [] pc \in {"page_loop", "page_call"} -> "Synthesized"
      [] pc = "assemble" -> "PagesSummarized"
      [] pc \in {"save", "done"} -> "Done"
      [] pc = "failed" -> "Failed"

StageOrder ==
    {<<"Start", "Parsed">>, <<"Parsed", "SectionsAnalyzed">>,
     <<"SectionsAnalyzed", "Synthesized">>, <<"Synthesized", "PagesSummarized">>,
     <<"PagesSummarized", "Done">>}
        \cup {<<st, "Failed">> : st \in {"Start", "Parsed", "SectionsAnalyzed",
                                         "Synthesized", "PagesSummarized"}}

\* C10: a run moves only Start -> Parsed -> SectionsAnalyzed -> Synthesized ->
\* PagesSummarized -> Done, one stage at a time, or from a stage before Done to
\* Failed; an exception on the orchestrating thread ends the run in Failed;
\* nothing runs after Failed, a failed run returns no result and saves nothing,
\* and save_analysis is invoked only after Done is reached.
C10_StageOrder ==
    /\ [](/\ error # <<>> => pc \in {"shutdown", "failed"}
          /\ Stage = "Failed" => (result = <<>> /\ ~saved)
          /\ result # <<>> => Stage = "Done"
          /\ saved => (pc = "done" /\ result # <<>>))
    /\ [][/\ Stage' # Stage => <<Stage, Stage'>> \in StageOrder
          /\ pc = "shutdown" => pc' \in {"shutdown", "failed"}
          /\ pc = "failed" => UNCHANGED pipeVars]_vars

C10_Witness ==
    /\ pc = "done"
    /\ saved
    /\ page_dict = 2
    /\ Len(futures) = 4

\* C11: for every result the pipeline produces, save_analysis(title, result)
\* followed by load_analysis(title) returns a value deep-equal to result, with
\* the same keys of the same type.
C11_SaveLoadRoundTrip ==
    (loaded # <<>> /\ result # <<>>) => loaded[1] = ToPy(result[1])

\* the mapping parallel_analysis builds when the futures are collected in the
\* order in which they were submitted
SubmissionOrderResults ==
    [i \in DOMAIN futures |-> <<futures[i].section_name, FutureResult(futures[i])>>]

\* C12: with fixed section texts and a deterministic backend the aggregated
\* artifact is the same for every completion order of the section tasks:
\* section_analyses has the same key-to-value content, and the synthesis prompt
\* built from it, hence final_synthesis, is the one obtained when the tasks
\* complete in submission order.
C12_OrderIndependentArtifact ==
    ParallelReturned =>
        /\ Range(section_analyses) = Range(SubmissionOrderResults)
        /\ synthesis_prompt(section_analyses)
              = synthesis_prompt(SubmissionOrderResults)
        /\ final_synthesis # <<>> =>
              final_synthesis = Respond("Synthesis_Expert",
                                        synthesis_prompt(SubmissionOrderResults))

\* safe_initiate_chat calls of the orchestrating thread that have returned
ChatsReturned ==
    (IF parsing_result.kind # "none" THEN 1 ELSE 0)
        + (IF final_synthesis # <<>> THEN 1 ELSE 0)
        + Len(page_summaries)

\* safe_initiate_chat calls of the orchestrating thread that have raised
ChatsRaised == IF Len(error) = 2 /\ ~SomeTaskRaised THEN 1 ELSE 0

\* calls of the orchestrating thread issued and neither returned nor raised
ChatsInFlight == Len(issued) - ChatsReturned - ChatsRaised

\* C14: the parser, synthesis and page calls are made one at a time by the
\* orchestrating thread: at most one is in flight, none while a section task
\* is running, the call for the next page is issued only after the previous
\* page's call returned, and pages are summarized in the order of page_dict.
C14_SequentialCalls ==
    /\ ChatsInFlight \in {0, 1}
    /\ ChatsInFlight = 1 <=> pc \in {"parse_call", "synth_call", "page_call"}
    /\ ChatsInFlight = 1 =>
          \A t \in DOMAIN futures : futures[t].state # "running"
    /\ (\E t \in DOMAIN futures : futures[t].state = "running") =>
          (ChatsInFlight = 0 /\ ~ParallelReturned)
    /\ \A i \in 1..Len(issued) :
          issued[i] = (IF i = 1 THEN "parser" ELSE IF i = 2 THEN "synthesis" ELSE "page")
    /\ Len(issued) >= 2 =>
          Len(issued) - 2 \in {Len(page_summaries), Len(page_summaries) + 1}
    /\ \A i \in 1..Len(page_summaries) : page_summaries[i][1] = i - 1

\* the second page's call is in flight, after four section tasks and the
\* first page's call
C14_Witness ==
    /\ pc = "page_call"
    /\ Len(page_summaries) = 1
    /\ Len(futures) = 4
    /\ issued = <<"parser", "synthesis", "page", "page">>

\* C15: the section tasks do not write the output mapping: every write of
\* results is a step of the collecting loop of the orchestrating thread, which
\* takes one finished future and appends one entry under that task's own
\* section name, a name not yet in the mapping; no worker changes state in that
\* step, so no entry is written twice or overwritten.
C15_SingleWriter ==
    /\ [](/\ Len(results) = Cardinality(Keys(results))
          /\ Len(results) =
                Cardinality({t \in yielded : futures[t].state = "done"}))
    /\ [][results' # results =>
            /\ pc = "collect"
            /\ futures' = futures
            /\ \E t \in yielded' \ yielded :
                  /\ yielded' = yielded \cup {t}
                  /\ futures[t].state = "done"
                  /\ futures[t].section_name \notin Keys(results)
                  /\ results' = Append(results, <<futures[t].section_name,
                                                  FutureResult(futures[t])>>)]_vars

\* four entries written, the last-submitted task's first
C15_Witness ==
    /\ Len(results) = 4
    /\ results[1][1] = futures[4].section_name
    /\ pc = "collect"

\* a submitted task whose expert is for another section than the one it analyzes
Mispaired(t) == Specialty(futures[t].expert) # futures[t].section_name

\* the parsed mapping lacks one of the four sections
OmitsSection == ~(SectionEnum \subseteq Range(sections.keys))

\* two of the four sections appear in the parsed mapping against the canonical order
OutOfCanonicalOrder ==
    \E i, j \in 1..Len(sections.keys) :
        /\ i < j
        /\ \E a, b \in 1..Len(CanonicalOrder) :
              /\ CanonicalOrder[a] = sections.keys[i]
              /\ CanonicalOrder[b] = sections.keys[j]
              /\ b < a

\* C16 as claimed: roles and sections are paired by position, so whenever the
\* parser omits a section or returns sections out of canonical order, some
\* analyzed section has a role whose specialty differs from its name.
C16_OmissionAlwaysMispairs ==
    futures # <<>> =>
        /\ \A t \in DOMAIN futures :
              /\ futures[t].expert = experts[t]
              /\ futures[t].section_name = sections.keys[t]
        /\ (OmitsSection \/ OutOfCanonicalOrder) =>
              \E t \in DOMAIN futures : Mispaired(t)

\* C16 amended: the i-th section of the parsed mapping is analyzed by the i-th
\* expert whatever its name; some analyzed section has a role of another
\* specialty exactly when the analyzed keys are not a prefix of Introduction,
\* Methodology, Results, Discussion (a section before the last present one is
\* omitted, the order differs, or a key is foreign); omitting only trailing
\* sections leaves every analyzed section with its own expert.
C16_PositionalPairing ==
    futures # <<>> =>
        /\ \A t \in DOMAIN futures :
              /\ futures[t].expert = experts[t]
              /\ futures[t].section_name = sections.keys[t]
        /\ (\E t \in DOMAIN futures : Mispaired(t))
              <=> (\E t \in DOMAIN futures : sections.keys[t] # CanonicalOrder[t])

\* Methodology is omitted and Results was analyzed by Methodology_Expert
C16_Witness ==
    /\ sections.keys = <<"Introduction", "Results">>
    /\ Len(results) = 2
    /\ \E i \in 1..2 : /\ results[i][1] = "Results"
                       /\ results[i][2][1] = "Methodology_Expert"

\* C18: a parsed mapping with more than 4 entries gets tasks for exactly its
\* first 4 entries, in order; the other sections are absent from the mapping
\* parallel_analysis returns, no exception is raised on their account (a run
\* fails only on a backend error) and the run goes on to the synthesis call
\* with the truncated mapping.
C18_SilentTruncation ==
    (sections.kind = "mapping" /\ Len(sections.keys) > 4) =>
        /\ pc # "dispatch" =>
              /\ Len(futures) = 4
              /\ \A t \in 1..4 : futures[t].section_name = sections.keys[t]
        /\ error # <<>> => (Len(error) = 2 /\ error[1] = "BackendError")
        /\ (pc = "collect" /\ yielded = DOMAIN futures) => ~SomeTaskRaised
        /\ ParallelReturned =>
              /\ Keys(section_analyses) = {sections.keys[t] : t \in 1..4}
              /\ \A i \in 5..Len(sections.keys) :
                    sections.keys[i] \notin Keys(section_analyses)
              /\ final_synthesis # <<>> =>
                    final_synthesis[2] = synthesis_prompt(section_analyses)

\* five sections parsed, four analyzed, the run complete without Discussion
C18_Witness ==
    /\ Len(sections.keys) = 5
    /\ pc = "done"
    /\ Keys(result[1].section_analyses)
          = {"Abstract", "Introduction", "Methodology", "Results"}

(***************************************************************************)
(* Claims about the page loop, checked under SpecPages.                    *)
(***************************************************************************)
\* C13: with a deterministic backend, summarizing the same page mapping twice,
\* the pages visited in any two orders, gives mappings that assign the same
\* summary to every page index (and have one entry per page).
C13_PageSummariesOrderIndependent ==
    (runs[1].state = "returned" /\ runs[2].state = "returned") =>
        /\ Range(runs[1].summaries) = Range(runs[2].summaries)
        /\ Keys(runs[1].summaries) = Range(runs[1].items)
        /\ Len(runs[1].summaries) = Len(runs[1].items)
        /\ Len(runs[2].summaries) = Len(runs[2].items)

C13_Witness ==
    /\ runs[1].state = "returned"
    /\ runs[2].state = "returned"
    /\ runs[1].items = <<0, 1, 2>>
    /\ runs[2].items = <<2, 0, 1>>

(***************************************************************************)
(* Claims about concurrent wrapper calls, checked under SpecWorkers.       *)
(***************************************************************************)
\* C19: for every max_retries >= 1 no call leaves the loop through the while
\* condition; what a call hands back is the value of its own last invocation
\* of func or the error of its own max_retries-th invocation, never None; and
\* a call's retries counts its own failures only, whatever the other calls do.
C19_OwnRetryBudget ==
    policy.max_retries >= 1 =>
        \A w \in DOMAIN workers :
            /\ workers[w].wstate # "fellthrough"
            /\ workers[w].outcome = None => workers[w].wstate = "running"
            /\ workers[w].wstate = "running" =>
                  /\ workers[w].retries = Len(workers[w].attempts)
                  /\ AllErr(workers[w].attempts)
            /\ workers[w].wstate = "returned" =>
                  /\ workers[w].outcome = <<"value", Len(workers[w].attempts)>>
                  /\ workers[w].attempts[Len(workers[w].attempts)] = "ok"
                  /\ workers[w].retries = Len(workers[w].attempts) - 1
            /\ workers[w].wstate = "raised" =>
                  /\ workers[w].outcome = <<"error", policy.max_retries>>
                  /\ Len(workers[w].attempts) = policy.max_retries
                  /\ AllErr(workers[w].attempts)

\* one call exhausts its budget of 3 while the other still succeeds on its
\* own third invocation: 5 failures in all
C19_Witness ==
    /\ policy.max_retries = 3
    /\ workers[1].wstate = "raised"
    /\ workers[2].wstate = "returned"
    /\ Len(workers[2].attempts) = 3

=============================================================================
